---- MODULE Spec2Model ----
(***************************************************************************)
(* The bootstrap lock register of repository-service-tuf-api and the       *)
(* task-status query, as a state machine.                                  *)
(*                                                                         *)
(* Python values are modelled as records: None is [none |-> TRUE], a str   *)
(* is [str |-> <<c1, ..., cn>>] with one-character strings c_i, so that    *)
(* str.split("-") and the f-string "pre-{task_id}" work on characters.     *)
(***************************************************************************)
EXTENDS Integers, Sequences, FiniteSets, TLC

---------------------------------------------------------------------------
(* Bounds *)

\* number of task ids get_task_id hands out in one behaviour
MaxTasks == 2
\* longest raw register string enumerated for the decoder
MaxRawLen == 4

---------------------------------------------------------------------------
(* Python values *)

None == [none |-> TRUE]
Str(s) == [str |-> s]

\* the API-server processes
Procs == {"api1", "api2"}

HexDigits == <<"0","1","2","3","4","5","6","7","8","9","a","b","c","d","e","f">>

RECURSIVE Hex_Dashed(_)
\* mutant: the digits in groups joined by '-', as str(uuid4()) renders them
Hex_Dashed(ns) ==
  IF ns = <<>> THEN <<>>
  ELSE IF Tail(ns) = <<>> THEN <<HexDigits[Head(ns) + 1]>>
  ELSE <<HexDigits[Head(ns) + 1], "-">> \o Hex_Dashed(Tail(ns))

RECURSIVE Hex(_)
\* a sequence of numbers below 16 rendered as lower-case hexadecimal digits
\* (uuid.UUID.hex renders 32 of them)
Hex(ns) ==
  IF ns = <<>> THEN <<>>
  ELSE <<HexDigits[Head(ns) + 1]>> \o Hex(Tail(ns))

\* the random values uuid4() draws in the model, most significant digit first
UuidValues == << <<1, 10>>, <<10, 11>>, <<3, 12>>, <<12, 13>>, <<4, 2>> >>

\* get_task_id(): uuid4().hex, a hexadecimal token without separators; the
\* tokens of one behaviour are the first MaxTasks of the sample
TaskIds == { Hex(UuidValues[k]) : k \in 1..MaxTasks }

SEP == "-"
PRE == <<"p","r","e">>
SIGNING == <<"s","i","g","n","i","n","g">>
FINISHED == <<"f","i","n","i","s","h","e","d">>

\* the positions of the separator in a string
SepPositions(s) == { i \in 1..Len(s) : s[i] = SEP }

\* a one-component register value: the finished form '<taskId>'
IsFinished(v) == v # None /\ SepPositions(v.str) = {}

\* mutant: the separator left out of the f-string
PreLockValue_NoSep(task_id) == Str(PRE \o task_id)

\* f"pre-{task_id}"
PreLockValue(task_id) == Str(PRE \o <<SEP>> \o task_id)

RECURSIVE Split(_, _)
\* str.split(sep) for a one-character sep: the list of the pieces between
\* the separators, one more than there are separators
Split(s, sep) ==
  IF s = <<>> THEN << <<>> >>
  ELSE LET rest == Split(Tail(s), sep)
       IN  IF Head(s) = sep
           THEN << <<>> >> \o rest
           ELSE << <<Head(s)>> \o Head(rest) >> \o Tail(rest)

\* the dataclass BootstrapState
BootstrapState(b, s, t) == [bootstrap |-> b, state |-> s, task_id |-> t]

\* mutant: the two components taken in the wrong order
Decode_Swapped(bootstrap) ==
  IF bootstrap = None
  THEN BootstrapState(FALSE, None, None)
  ELSE IF Len(Split(bootstrap.str, SEP)) = 1
  THEN BootstrapState(TRUE, Str(FINISHED), bootstrap)
  ELSE IF Len(Split(bootstrap.str, SEP)) = 2
  THEN BootstrapState(FALSE, Str(Split(bootstrap.str, SEP)[2]),
                             Str(Split(bootstrap.str, SEP)[1]))
  ELSE None

\* mutant: the state field left unset for a finished bootstrap
Decode_NullState(bootstrap) ==
  IF bootstrap = None
  THEN BootstrapState(FALSE, None, None)
  ELSE IF Len(Split(bootstrap.str, SEP)) = 1
  THEN BootstrapState(TRUE, None, bootstrap)
  ELSE IF Len(Split(bootstrap.str, SEP)) = 2
  THEN BootstrapState(FALSE, Str(Split(bootstrap.str, SEP)[1]),
                             Str(Split(bootstrap.str, SEP)[2]))
  ELSE None

\* mutant: bootstrap is set for every recorded value
Decode_AlwaysBootstrapped(bootstrap) ==
  IF bootstrap = None
  THEN BootstrapState(FALSE, None, None)
  ELSE IF Len(Split(bootstrap.str, SEP)) = 1
  THEN BootstrapState(TRUE, Str(FINISHED), bootstrap)
  ELSE IF Len(Split(bootstrap.str, SEP)) = 2
  THEN BootstrapState(TRUE, Str(Split(bootstrap.str, SEP)[1]),
                            Str(Split(bootstrap.str, SEP)[2]))
  ELSE None

\* the decoding part of bootstrap_state(): from the BOOTSTRAP value to the
\* value the function returns; falling off the end of the function returns
\* Python's None
Decode(bootstrap) ==
  IF bootstrap = None
  THEN BootstrapState(FALSE, None, None)
  ELSE IF Len(Split(bootstrap.str, SEP)) = 1
  THEN BootstrapState(TRUE, Str(FINISHED), bootstrap)
  ELSE IF Len(Split(bootstrap.str, SEP)) = 2
  THEN BootstrapState(FALSE, Str(Split(bootstrap.str, SEP)[1]),
                             Str(Split(bootstrap.str, SEP)[2]))
  ELSE None

---------------------------------------------------------------------------
(* State *)

VARIABLES
  store,          \* the settings hash in Redis: key -> value
  local,          \* local[p]: the settings_repository object of process p
  settings_data,  \* settings_data[p]: the dict a lock operation builds
  pc,             \* pc[p]: where process p is
  task_id,        \* task_id[p]: the task id of p's current/last lock call
  ret,            \* ret[p]: what p's last bootstrap_state() returned
  issued,         \* task ids get_task_id has returned
  submitted,      \* task ids handed to the worker as the bootstrap task
  prelocked,      \* history: task ids whose pre-lock has been written
  last_write,     \* history: the last completed write to the store
  seen,           \* history: seen[p] = last_write when p last read the state
  engine,         \* the execution engine's result store: task id -> state
  response        \* response[p]: what p's last status query returned

vars == <<store, local, settings_data, pc, task_id, ret, issued, submitted,
          prelocked, last_write, seen, engine, response>>

BOOTSTRAP == "BOOTSTRAP"
\* another setting kept in the same hash
OTHER_KEY == "OTHER_KEY"
Keys == {BOOTSTRAP, OTHER_KEY}
OtherValues == {Str(<<"x">>), Str(<<"y">>)}

NoCall == [nocall |-> TRUE]
NoData == [nodata |-> TRUE]
NoWrite == [op |-> "none", by |-> "-", task |-> None, prior |-> None, value |-> None]

\* the settings of a deployment on which bootstrap never started
EmptySettings == [k \in Keys |-> IF k = BOOTSTRAP THEN None ELSE Str(<<"x">>)]

Init ==
  /\ store = EmptySettings
  /\ local = [p \in Procs |-> EmptySettings]
  /\ settings_data = [p \in Procs |-> NoData]
  /\ pc = [p \in Procs |-> "idle"]
  /\ task_id = [p \in Procs |-> None]
  /\ ret = [p \in Procs |-> NoCall]
  /\ issued = {}
  /\ submitted = {}
  /\ prelocked = {}
  /\ last_write = NoWrite
  /\ seen = [p \in Procs |-> NoWrite]
  /\ engine = [t \in {} |-> "PENDING"]
  /\ response = [p \in Procs |-> NoCall]

---------------------------------------------------------------------------
(* The settings store *)

\* settings_repository.as_dict(env=...): the settings the process-local
\* object holds
as_dict(p) == local[p]

\* mutant: a key is set only when the hash holds no value for it
RedisWrite_IfAbsent(data) ==
  [k \in Keys |-> IF k \in DOMAIN data /\ store[k] = None THEN data[k] ELSE store[k]]

\* redis_loader.write(settings_repository, data): every key of data is set
\* in the hash, then the process-local object is loaded from the hash
RedisWrite(data) == [k \in Keys |-> IF k \in DOMAIN data THEN data[k] ELSE store[k]]

\* mutant: the value is taken from the process-local object, not reloaded
ReadState_Cached(p) ==
  /\ local' = local
  /\ ret' = [ret EXCEPT ![p] = Decode(local[p][BOOTSTRAP])]
  /\ seen' = [seen EXCEPT ![p] = last_write]

\* settings_repository.reload() then get_fresh("BOOTSTRAP"), and the
\* decoding: the body of bootstrap_state()
ReadState(p) ==
  /\ local' = [local EXCEPT ![p] = store]
  /\ ret' = [ret EXCEPT ![p] = Decode(local'[p][BOOTSTRAP])]
  /\ seen' = [seen EXCEPT ![p] = last_write]

\* the BootstrapState a caller got is gone once it starts its next call
Forget(p) ==
  /\ ret' = [ret EXCEPT ![p] = NoCall]
  /\ seen' = [seen EXCEPT ![p] = NoWrite]

---------------------------------------------------------------------------
(* pre_lock_bootstrap(task_id) *)

\* lines 78-81: the snapshot and the BOOTSTRAP field set in it
PreLockRead(p, t) ==
  /\ t \in TaskIds \ issued
  /\ issued' = issued \cup {t}
  /\ task_id' = [task_id EXCEPT ![p] = Str(t)]
  /\ settings_data' = [settings_data EXCEPT
                         ![p] = [as_dict(p) EXCEPT ![BOOTSTRAP] = PreLockValue(t)]]
  /\ pc' = [pc EXCEPT ![p] = "pre_write"]
  /\ Forget(p)
  /\ UNCHANGED <<store, local, submitted, prelocked, last_write, engine,
                 response>>

\* a call of pre_lock_bootstrap(get_task_id()) up to its write
pre_lock_bootstrap(p, t) ==
  /\ pc[p] = "idle"
  /\ PreLockRead(p, t)

\* mutant: the lock is written only over an absent register
PreLockWrite_IfAbsent(p) ==
  /\ pc[p] = "pre_write"
  /\ store' = IF store[BOOTSTRAP] = None THEN RedisWrite(settings_data[p]) ELSE store
  /\ local' = [local EXCEPT ![p] = store']
  /\ settings_data' = [settings_data EXCEPT ![p] = NoData]
  /\ prelocked' = prelocked \cup {task_id[p].str}
  /\ last_write' = [op |-> "pre_lock", by |-> p, task |-> task_id[p],
                    prior |-> store[BOOTSTRAP], value |-> store'[BOOTSTRAP]]
  /\ pc' = [pc EXCEPT ![p] = "submit"]
  /\ UNCHANGED <<task_id, ret, issued, submitted, seen, engine, response>>

\* line 82: the snapshot written back
PreLockWrite(p) ==
  /\ pc[p] = "pre_write"
  /\ store' = RedisWrite(settings_data[p])
  /\ local' = [local EXCEPT ![p] = store']
  /\ settings_data' = [settings_data EXCEPT ![p] = NoData]
  /\ prelocked' = prelocked \cup {task_id[p].str}
  /\ last_write' = [op |-> "pre_lock", by |-> p, task |-> task_id[p],
                    prior |-> store[BOOTSTRAP], value |-> store'[BOOTSTRAP]]
  /\ pc' = [pc EXCEPT ![p] = "submit"]
  /\ UNCHANGED <<task_id, ret, issued, submitted, seen, engine, response>>

\* the exception a call ends with when the hash cannot be reached
ConnectionError == [error |-> "ConnectionError"]

\* mutant: the hash is set before the connection is lost
PreLockWriteFails_AfterSet(p) ==
  /\ pc[p] = "pre_write"
  /\ store' = RedisWrite(settings_data[p])
  /\ settings_data' = [settings_data EXCEPT ![p] = NoData]
  /\ ret' = [ret EXCEPT ![p] = ConnectionError]
  /\ task_id' = [task_id EXCEPT ![p] = None]
  /\ pc' = [pc EXCEPT ![p] = "idle"]
  /\ UNCHANGED <<local, issued, submitted, prelocked, last_write, seen,
                 engine, response>>

\* line 82 with the store unreachable: hmset raises, nothing is set, and
\* the exception leaves pre_lock_bootstrap; its caller submits no task
PreLockWriteFails(p) ==
  /\ pc[p] = "pre_write"
  /\ settings_data' = [settings_data EXCEPT ![p] = NoData]
  /\ ret' = [ret EXCEPT ![p] = ConnectionError]
  /\ task_id' = [task_id EXCEPT ![p] = None]
  /\ pc' = [pc EXCEPT ![p] = "idle"]
  /\ UNCHANGED <<store, local, issued, submitted, prelocked, last_write,
                 seen, engine, response>>

---------------------------------------------------------------------------
(* release_bootstrap_lock() *)

\* mutant: a finished bootstrap is kept, as the docstring has it
release_bootstrap_lock_IfNotFinished(p) ==
  /\ pc[p] = "idle"
  /\ settings_data' = [settings_data EXCEPT
                         ![p] = [as_dict(p) EXCEPT ![BOOTSTRAP] =
                                   IF IsFinished(as_dict(p)[BOOTSTRAP])
                                   THEN as_dict(p)[BOOTSTRAP] ELSE None]]
  /\ pc' = [pc EXCEPT ![p] = "rel_write"]
  /\ Forget(p)
  /\ UNCHANGED <<store, local, task_id, issued, submitted, prelocked,
                 last_write, engine, response>>

\* lines 91-94
release_bootstrap_lock(p) ==
  /\ pc[p] = "idle"
  /\ settings_data' = [settings_data EXCEPT
                         ![p] = [as_dict(p) EXCEPT ![BOOTSTRAP] = None]]
  /\ pc' = [pc EXCEPT ![p] = "rel_write"]
  /\ Forget(p)
  /\ UNCHANGED <<store, local, task_id, issued, submitted, prelocked,
                 last_write, engine, response>>

\* line 95
ReleaseWrite(p) ==
  /\ pc[p] = "rel_write"
  /\ store' = RedisWrite(settings_data[p])
  /\ local' = [local EXCEPT ![p] = store']
  /\ settings_data' = [settings_data EXCEPT ![p] = NoData]
  /\ last_write' = [op |-> "release", by |-> p, task |-> None,
                    prior |-> store[BOOTSTRAP], value |-> store'[BOOTSTRAP]]
  /\ pc' = [pc EXCEPT ![p] = "idle"]
  /\ UNCHANGED <<task_id, ret, issued, submitted, prelocked, seen, engine,
                 response>>

\* line 95 with the store unreachable
ReleaseWriteFails(p) ==
  /\ pc[p] = "rel_write"
  /\ settings_data' = [settings_data EXCEPT ![p] = NoData]
  /\ ret' = [ret EXCEPT ![p] = ConnectionError]
  /\ pc' = [pc EXCEPT ![p] = "idle"]
  /\ UNCHANGED <<store, local, task_id, issued, submitted, prelocked,
                 last_write, seen, engine, response>>

---------------------------------------------------------------------------
(* bootstrap_state() *)

\* mutant: a read finds an intermediate value expired and clears it
bootstrap_state_Expire(p) ==
  /\ pc[p] = "idle"
  /\ store' = IF store[BOOTSTRAP] # None /\ ~IsFinished(store[BOOTSTRAP])
              THEN [store EXCEPT ![BOOTSTRAP] = None] ELSE store
  /\ local' = [local EXCEPT ![p] = store']
  /\ ret' = [ret EXCEPT ![p] = Decode(store'[BOOTSTRAP])]
  /\ seen' = [seen EXCEPT ![p] = last_write]
  /\ UNCHANGED <<settings_data, pc, task_id, issued, submitted, prelocked,
                 last_write, engine, response>>

\* mutant: the process-local settings are saved to the hash before the read
bootstrap_state_Save(p) ==
  /\ pc[p] = "idle"
  /\ store' = local[p]
  /\ local' = local
  /\ ret' = [ret EXCEPT ![p] = Decode(local[p][BOOTSTRAP])]
  /\ seen' = [seen EXCEPT ![p] = last_write]
  /\ UNCHANGED <<settings_data, pc, task_id, issued, submitted, prelocked,
                 last_write, engine, response>>

bootstrap_state(p) ==
  /\ pc[p] = "idle"
  /\ ReadState(p)
  /\ UNCHANGED <<store, settings_data, pc, task_id, issued, submitted,
                 prelocked, last_write, engine, response>>

---------------------------------------------------------------------------
(* The bootstrap request: bootstrap_state(), and when bootstrap has not   *)
(* started, pre_lock_bootstrap(get_task_id()) and the task's submission   *)

\* the request reads the state; it goes on only when nothing is recorded
\* (an AttributeError on a None result ends the request as well)
BootstrapRequest(p) ==
  /\ pc[p] = "idle"
  /\ issued # TaskIds
  /\ ReadState(p)
  /\ pc' = [pc EXCEPT ![p] =
              IF ret'[p] = BootstrapState(FALSE, None, None) THEN "h_lock" ELSE "idle"]
  /\ UNCHANGED <<store, settings_data, task_id, issued, submitted, prelocked,
                 last_write, engine, response>>

BootstrapRequestLock(p, t) ==
  /\ pc[p] = "h_lock"
  /\ PreLockRead(p, t)

\* mutant: the submission records the task's phase in the register
repository_metadata_Records(p) ==
  /\ pc[p] = "submit"
  /\ submitted' = submitted \cup {task_id[p].str}
  /\ task_id' = [task_id EXCEPT ![p] = None]
  /\ pc' = [pc EXCEPT ![p] = "idle"]
  /\ store' = [store EXCEPT ![BOOTSTRAP] = Str(SIGNING \o <<SEP>> \o task_id[p].str)]
  /\ UNCHANGED <<local, settings_data, ret, issued, prelocked, last_write,
                 seen, engine, response>>

\* the caller of pre_lock_bootstrap(task_id) then submits the task:
\* repository_metadata.apply_async(..., task_id=task_id) hands it to the
\* worker, and the request is over
repository_metadata(p) ==
  /\ pc[p] = "submit"
  /\ submitted' = submitted \cup {task_id[p].str}
  /\ task_id' = [task_id EXCEPT ![p] = None]
  /\ pc' = [pc EXCEPT ![p] = "idle"]
  /\ UNCHANGED <<store, local, settings_data, ret, issued, prelocked,
                 last_write, seen, engine, response>>

---------------------------------------------------------------------------
(* The worker and other writers of the settings hash *)

PhaseValue(phase, t) == Str(phase \o <<SEP>> \o t)

\* PRE(taskId) --worker advances--> SIGNING(taskId)
WorkerAdvance(t) ==
  /\ t \in submitted
  /\ store[BOOTSTRAP] = PreLockValue(t)
  /\ store' = [store EXCEPT ![BOOTSTRAP] = PhaseValue(SIGNING, t)]
  /\ last_write' = [op |-> "worker", by |-> "-", task |-> Str(t),
                    prior |-> store[BOOTSTRAP], value |-> store'[BOOTSTRAP]]
  /\ UNCHANGED <<local, settings_data, pc, task_id, ret, issued, submitted,
                 prelocked, seen, engine, response>>

\* SIGNING(taskId) --worker finishes--> FINISHED(taskId)
WorkerFinish(t) ==
  /\ t \in submitted
  /\ store[BOOTSTRAP] = PhaseValue(SIGNING, t)
  /\ store' = [store EXCEPT ![BOOTSTRAP] = Str(t)]
  /\ last_write' = [op |-> "worker", by |-> "-", task |-> Str(t),
                    prior |-> store[BOOTSTRAP], value |-> store'[BOOTSTRAP]]
  /\ UNCHANGED <<local, settings_data, pc, task_id, ret, issued, submitted,
                 prelocked, seen, engine, response>>

\* another process sets another key of the hash
WriteOtherKey(v) ==
  /\ v \in OtherValues
  /\ v # store[OTHER_KEY]
  /\ store' = [store EXCEPT ![OTHER_KEY] = v]
  /\ last_write' = [op |-> "other", by |-> "-", task |-> None,
                    prior |-> store[BOOTSTRAP], value |-> store'[BOOTSTRAP]]
  /\ UNCHANGED <<local, settings_data, pc, task_id, ret, issued, submitted,
                 prelocked, seen, engine, response>>

---------------------------------------------------------------------------
(* Specifications *)

Next ==
  \/ \E p \in Procs, t \in TaskIds : pre_lock_bootstrap(p, t)
  \/ \E p \in Procs : PreLockWrite(p)
  \/ \E p \in Procs : release_bootstrap_lock(p)
  \/ \E p \in Procs : ReleaseWrite(p)
  \/ \E p \in Procs : bootstrap_state(p)
  \/ \E p \in Procs : repository_metadata(p)
  \/ \E t \in TaskIds : WorkerAdvance(t)
  \/ \E t \in TaskIds : WorkerFinish(t)
  \/ \E v \in OtherValues : WriteOtherKey(v)

Spec == Init /\ [][Next]_vars

\* the API servers handle bootstrap requests only
NextBootstrap ==
  \/ \E p \in Procs : BootstrapRequest(p)
  \/ \E p \in Procs, t \in TaskIds : BootstrapRequestLock(p, t)
  \/ \E p \in Procs : PreLockWrite(p)
  \/ \E p \in Procs : repository_metadata(p)
  \/ \E t \in TaskIds : WorkerAdvance(t)
  \/ \E t \in TaskIds : WorkerFinish(t)

SpecBootstrap == Init /\ [][NextBootstrap]_vars

---------------------------------------------------------------------------
(* Two processes, each about to call pre_lock_bootstrap once with its own *)
(* task id, against an absent register                                    *)

InitRace ==
  /\ \E f \in [Procs -> TaskIds] :
        /\ \A p, q \in Procs : p # q => f[p] # f[q]
        /\ task_id = [p \in Procs |-> Str(f[p])]
  /\ store = EmptySettings
  /\ local = [p \in Procs |-> EmptySettings]
  /\ settings_data = [p \in Procs |-> NoData]
  /\ pc = [p \in Procs |-> "idle"]
  /\ ret = [p \in Procs |-> NoCall]
  /\ issued = {}
  /\ submitted = {}
  /\ prelocked = {}
  /\ last_write = NoWrite
  /\ seen = [p \in Procs |-> NoWrite]
  /\ engine = [t \in {} |-> "PENDING"]
  /\ response = [p \in Procs |-> NoCall]

\* the process calls pre_lock_bootstrap with the task id it holds
RaceCall(p) ==
  /\ pc[p] = "idle"
  /\ task_id[p] # None
  /\ PreLockRead(p, task_id[p].str)

NextRace ==
  \/ \E p \in Procs : RaceCall(p)
  \/ \E p \in Procs : PreLockWrite(p)
  \/ \E p \in Procs : repository_metadata(p)
  \/ \E p \in Procs : bootstrap_state(p)

SpecRace == InitRace /\ [][NextRace]_vars

---------------------------------------------------------------------------
(* bootstrap_state() on every register value *)

RawAlphabet == {"a", "b", SEP}
RawStrings == UNION { [1..n -> RawAlphabet] : n \in 0..MaxRawLen }

Phases == {PRE, SIGNING}
\* the values the system writes: the pre-lock, the worker's later phases
\* and the finished form
EncodedValues ==
  { PreLockValue(t) : t \in TaskIds }
    \cup { PhaseValue(ph, t) : ph \in Phases \ {PRE}, t \in TaskIds }
    \cup { Str(t) : t \in TaskIds }

RegisterInputs == {None} \cup { Str(r) : r \in RawStrings } \cup EncodedValues

InitDecode ==
  /\ \E v \in RegisterInputs : store = [EmptySettings EXCEPT ![BOOTSTRAP] = v]
  /\ local = [p \in Procs |-> EmptySettings]
  /\ settings_data = [p \in Procs |-> NoData]
  /\ pc = [p \in Procs |-> "idle"]
  /\ task_id = [p \in Procs |-> None]
  /\ ret = [p \in Procs |-> NoCall]
  /\ issued = {}
  /\ submitted = {}
  /\ prelocked = {}
  /\ last_write = NoWrite
  /\ seen = [p \in Procs |-> NoWrite]
  /\ engine = [t \in {} |-> "PENDING"]
  /\ response = [p \in Procs |-> NoCall]

NextDecode == \E p \in Procs : bootstrap_state(p)

SpecDecode == InitDecode /\ [][NextDecode]_vars

---------------------------------------------------------------------------
(* The task-status query *)

\* a task id the engine never hears of
UnknownId == Hex(<<15, 15>>)
QueryIds == {None} \cup { Str(t) : t \in TaskIds \cup {UnknownId} }

\* the task states of the status query
TaskStates == {"PENDING", "RECEIVED", "PRE_RUN", "RUNNING", "FAILURE", "SUCCESS"}

\* the life of a task in the engine's result store; with task_track_started
\* the engine also reports STARTED when the worker picks the task up
EngineNext(s) ==
  CASE s = "RECEIVED" -> {"PRE_RUN", "STARTED"}
    [] s = "STARTED" -> {"PRE_RUN", "SUCCESS", "FAILURE"}
    [] s = "PRE_RUN" -> {"RUNNING"}
    [] s = "RUNNING" -> {"SUCCESS", "FAILURE"}
    [] OTHER -> {}

\* the total mapping of the engine's states onto the six task states: a
\* started task is in execution
StatusOf(native) == IF native = "STARTED" THEN "RUNNING" ELSE native

EngineStep(t) ==
  /\ IF t \in DOMAIN engine
     THEN \E s \in EngineNext(engine[t]) : engine' = [engine EXCEPT ![t] = s]
     ELSE engine' = [u \in DOMAIN engine \cup {t} |->
                       IF u = t THEN "RECEIVED" ELSE engine[u]]
  /\ UNCHANGED <<store, local, settings_data, pc, task_id, ret, issued,
                 submitted, prelocked, last_write, seen, response>>

\* the engine's answer for an id: a task it has no record of is PENDING
EngineState(id) ==
  IF id # None /\ id.str \in DOMAIN engine THEN engine[id.str] ELSE "PENDING"

EngineResult(id) ==
  CASE EngineState(id) = "SUCCESS" -> [value |-> TRUE]
    [] EngineState(id) = "FAILURE" -> [error |-> TRUE]
    [] OTHER -> None

\* tasks.get(task_id): the response built from the engine's record
tasks_get(id) ==
  [task_id |-> id, task_state |-> StatusOf(EngineState(id)),
   result |-> EngineResult(id)]

\* mutant: the endpoint does not pass the task id on
get_NoLookup(p, id) ==
  /\ response' = [response EXCEPT ![p] = [tasks_get(None) EXCEPT !.task_id = id]]
  /\ UNCHANGED <<store, local, settings_data, pc, task_id, ret, issued,
                 submitted, prelocked, last_write, seen, engine>>

\* mutant: a request without a task id is rejected
get_RejectNone(p, id) ==
  /\ response' = [response EXCEPT ![p] =
                    IF id = None THEN [task_id |-> id, error |-> "422"]
                    ELSE tasks_get(id)]
  /\ UNCHANGED <<store, local, settings_data, pc, task_id, ret, issued,
                 submitted, prelocked, last_write, seen, engine>>

\* GET /task/: return tasks.get(params.task_id)
get(p, id) ==
  /\ response' = [response EXCEPT ![p] = tasks_get(id)]
  /\ UNCHANGED <<store, local, settings_data, pc, task_id, ret, issued,
                 submitted, prelocked, last_write, seen, engine>>

NextTasks ==
  \/ \E t \in TaskIds : EngineStep(t)
  \/ \E p \in Procs, id \in QueryIds : get(p, id)

SpecTasks == Init /\ [][NextTasks]_vars

---------------------------------------------------------------------------
(* The lock operations with a store that can be unreachable *)

NextOutage ==
  \/ \E p \in Procs, t \in TaskIds : pre_lock_bootstrap(p, t)
  \/ \E p \in Procs : PreLockWrite(p)
  \/ \E p \in Procs : PreLockWriteFails(p)
  \/ \E p \in Procs : release_bootstrap_lock(p)
  \/ \E p \in Procs : ReleaseWrite(p)
  \/ \E p \in Procs : ReleaseWriteFails(p)
  \/ \E p \in Procs : repository_metadata(p)
  \/ \E t \in TaskIds : WorkerAdvance(t)
  \/ \E t \in TaskIds : WorkerFinish(t)

SpecOutage == Init /\ [][NextOutage]_vars

---------------------------------------------------------------------------
(* The two reads, bootstrap_state() and the status query, among writers *)

\* a client asks for the status of the task the state it read names
StatusQuery(p) ==
  /\ pc[p] = "idle"
  /\ ret[p] \notin {NoCall, None}
  /\ get(p, ret[p].task_id)

\* another process updates the other key, once
UpdateOtherKey(v) ==
  /\ store[OTHER_KEY] = EmptySettings[OTHER_KEY]
  /\ WriteOtherKey(v)

NextRead ==
  \/ \E p \in Procs, t \in TaskIds : pre_lock_bootstrap(p, t)
  \/ \E p \in Procs : PreLockWrite(p)
  \/ \E p \in Procs : repository_metadata(p)
  \/ \E t \in TaskIds : WorkerAdvance(t)
  \/ \E t \in TaskIds : WorkerFinish(t)
  \/ \E v \in OtherValues : UpdateOtherKey(v)
  \/ \E p \in Procs : bootstrap_state(p)
  \/ \E p \in Procs : StatusQuery(p)

SpecRead == Init /\ [][NextRead]_vars

---------------------------------------------------------------------------
(* Claims *)

\* C1: with the API servers handling bootstrap requests concurrently, at
\* most one task id has ever held the pre-lock and been handed to the worker
\* as the bootstrap task.
C1_BootstrapAtMostOnce == Cardinality(submitted \cap prelocked) <= 1

\* C2: FINISHED is terminal: once the register holds the finished form
\* '<taskId>', no step (a pre_lock_bootstrap or release_bootstrap_lock write
\* included) changes it.
C2_FinishedIsTerminal ==
  [][IsFinished(store[BOOTSTRAP]) => store'[BOOTSTRAP] = store[BOOTSTRAP]]_vars

\* both processes of the race have made their call and are back at rest
RaceOver == \A p \in Procs : pc[p] = "idle" /\ task_id[p] = None

\* C3: after two processes ran pre_lock_bootstrap concurrently with different
\* task ids against an absent register, the register holds the pre-lock of
\* one of the two ids, the last writer's, and bootstrap_state returns the
\* phase and the id of that value.
C3_RaceLastWriterWins ==
  RaceOver =>
    /\ Cardinality(prelocked) = 2
    /\ last_write.op = "pre_lock"
    /\ last_write.task.str \in prelocked
    /\ store[BOOTSTRAP] = Str(PRE \o <<SEP>> \o last_write.task.str)
    /\ \A p \in Procs :
         (ret[p] # NoCall /\ seen[p] = last_write) =>
           ret[p] = BootstrapState(FALSE, Str(PRE), last_write.task)

\* C3 witness: the race is over and the process that did not write last has
\* read the state after the last write
C3_Witness ==
  /\ RaceOver
  /\ \E p, q \in Procs :
       /\ p # q
       /\ last_write.by = p
       /\ seen[q] = last_write
       /\ ret[q] = BootstrapState(FALSE, Str(PRE), last_write.task)

\* C4: bootstrap_state called right after pre_lock_bootstrap(t) wrote to an
\* absent register returns bootstrap = false, state = 'pre', task_id = t.
C4_StateAfterPreLock ==
  \A p \in Procs :
    (ret[p] # NoCall /\ seen[p].op = "pre_lock" /\ seen[p].prior = None) =>
      ret[p] = BootstrapState(FALSE, Str(PRE), seen[p].task)

C4_Witness ==
  \E p \in Procs :
    /\ seen[p].op = "pre_lock"
    /\ seen[p].prior = None
    /\ seen[p].task \in { Str(t) : t \in TaskIds }
    /\ ret[p] = BootstrapState(FALSE, Str(PRE), seen[p].task)

C6_DecodeByComponentCount ==
  \A p \in Procs :
    ret[p] # NoCall =>
      LET b == store[BOOTSTRAP]
          n == IF b = None THEN 0 ELSE Cardinality(SepPositions(b.str))
      IN  /\ b = None => ret[p] = BootstrapState(FALSE, None, None)
          /\ (b # None /\ n = 0) => ret[p] = BootstrapState(TRUE, Str(FINISHED), b)
          /\ (b # None /\ n = 1) =>
                LET i == CHOOSE i \in SepPositions(b.str) : TRUE
                IN  ret[p] = BootstrapState(FALSE, Str(SubSeq(b.str, 1, i - 1)),
                                            Str(SubSeq(b.str, i + 1, Len(b.str))))
          /\ (ret[p] # None /\ ret[p].bootstrap) <=> (b # None /\ n = 0)

\* C6 witness: the two-component value 'a-b' was decoded
C6_Witness ==
  /\ store[BOOTSTRAP] = Str(<<"a", SEP, "b">>)
  /\ \E p \in Procs : ret[p] = BootstrapState(FALSE, Str(<<"a">>), Str(<<"b">>))

\* the phase of the register: absent, finished, or a named phase
Absent == [tag |-> "ABSENT"]
Finished == [tag |-> "FINISHED"]
Named(ph) == [name |-> ph]

\* the register string for (phase, taskId): the pre-lock as
\* pre_lock_bootstrap writes it, the later phases as the worker does
Encode(phase, t) ==
  IF phase = Finished THEN Str(t)
  ELSE IF phase = Named(PRE) THEN PreLockValue(t)
  ELSE PhaseValue(phase.name, t)

\* (phase, taskId) of a value bootstrap_state returned
Decoded(r) ==
  IF r = None THEN <<[tag |-> "UNDEFINED"], None>>
  ELSE IF r.bootstrap THEN <<Finished, r.task_id>>
  ELSE IF r.state = None THEN <<Absent, r.task_id>>
  ELSE <<Named(r.state.str), r.task_id>>

\* C7: round trip: decoding the register string that encodes
\* (phase, taskId) returns (phase, taskId), for the pre-lock, the other
\* intermediate phases and the finished form; decoding the absent value
\* returns (ABSENT, null).
C7_RoundTrip ==
  \A p \in Procs :
    ret[p] # NoCall =>
      /\ store[BOOTSTRAP] = None => Decoded(ret[p]) = <<Absent, None>>
      /\ \A ph \in {Finished} \cup { Named(n) : n \in Phases }, t \in TaskIds :
           store[BOOTSTRAP] = Encode(ph, t) => Decoded(ret[p]) = <<ph, Str(t)>>

\* C7 witness: the pre-lock of a task id was decoded to (pre, id)
C7_Witness ==
  \E p \in Procs, t \in TaskIds :
    /\ store[BOOTSTRAP] = Encode(Named(PRE), t)
    /\ ret[p] # NoCall
    /\ Decoded(ret[p]) = <<Named(PRE), Str(t)>>

\* C8: for a malformed register value (more than two components)
\* bootstrap_state returns a BootstrapState with bootstrap = false,
\* state = null, task_id = null.
C8_MalformedIsAbsent ==
  \A p \in Procs :
    (/\ ret[p] # NoCall
     /\ store[BOOTSTRAP] # None
     /\ Cardinality(SepPositions(store[BOOTSTRAP].str)) >= 2)
    => ret[p] = BootstrapState(FALSE, None, None)

\* C9: no stale reads: a bootstrap_state call that follows a completed
\* pre_lock_bootstrap or release_bootstrap_lock write of any process, with no
\* write in between, returns the decoding of the written value.
C9_NoStaleRead ==
  \A p \in Procs :
    (ret[p] # NoCall /\ seen[p].op \in {"pre_lock", "release"}) =>
      ret[p] = Decode(seen[p].value)

\* C9 witness: a process read the pre-lock another process wrote to an
\* absent register
C9_Witness ==
  \E p, q \in Procs :
    /\ p # q
    /\ seen[p].op = "pre_lock"
    /\ seen[p].by = q
    /\ seen[p].prior = None
    /\ ret[p] = BootstrapState(FALSE, Str(PRE), seen[p].task)

C12_FailureLeavesRegister ==
  [][\A p \in Procs :
       (ret'[p] = ConnectionError /\ ret[p] # ConnectionError) =>
         /\ store' = store
         /\ last_write' = last_write
         /\ pc[p] \in {"pre_write", "rel_write"} /\ pc'[p] = "idle"
         /\ submitted' = submitted
         /\ task_id[p] # None => task_id[p].str \notin submitted'
    ]_vars

\* C12 witness: a pre-lock failed over a recorded bootstrap value, which is
\* still in the store
C12_Witness ==
  \E p \in Procs :
    /\ ret[p] = ConnectionError
    /\ store[BOOTSTRAP] # None
    /\ last_write # NoWrite /\ last_write.by # p
    /\ store[BOOTSTRAP] = last_write.value

\* C13 as stated: in every BootstrapState returned, bootstrap is true iff the
\* register is in the finished form, the state field is null whenever
\* bootstrap is true, and the state field holds a phase name only for
\* intermediate phases.
C13_StateNullWhenBootstrapped ==
  \A p \in Procs :
    (ret[p] # NoCall /\ ret[p] # None) =>
      /\ ret[p].bootstrap <=> IsFinished(store[BOOTSTRAP])
      /\ ret[p].bootstrap => ret[p].state = None
      /\ ret[p].state # None =>
            (store[BOOTSTRAP] # None /\ ~IsFinished(store[BOOTSTRAP]))

\* C13 amended: in every BootstrapState returned, bootstrap is true iff the
\* register is in the finished form; the state field is 'finished' whenever
\* bootstrap is true, null only when the register is absent, and the phase
\* component of the value for an intermediate phase.
C13_BootstrapIffFinished ==
  \A p \in Procs :
    (ret[p] # NoCall /\ ret[p] # None) =>
      LET b == store[BOOTSTRAP]
      IN  /\ ret[p].bootstrap <=> IsFinished(b)
          /\ ret[p].bootstrap => ret[p].state = Str(FINISHED)
          /\ ret[p].state = None <=> b = None
          /\ (b # None /\ ~IsFinished(b)) =>
                ret[p].state = Str(Split(b.str, SEP)[1])

\* C13 witness: a finished register was read as bootstrapped, with the
\* state 'finished'
C13_Witness ==
  \E p \in Procs, t \in TaskIds :
    /\ store[BOOTSTRAP] = Str(t)
    /\ ret[p] # NoCall /\ ret[p] # None
    /\ ret[p].bootstrap /\ ret[p].state = Str(FINISHED)

\* C14: pre_lock_bootstrap and release_bootstrap_lock change only the
\* BOOTSTRAP field: under every interleaving with other writers of the
\* settings store, every other key has after the call's write the value it
\* had in the store immediately before that write.
C14_OnlyBootstrapChanges ==
  [][\A p \in Procs :
       (pc[p] \in {"pre_write", "rel_write"} /\ pc'[p] # pc[p]) =>
         \A k \in Keys \ {BOOTSTRAP} : store'[k] = store[k]
    ]_vars

\* C15: pre_lock_bootstrap(t) performs no check of the register: whatever
\* the register holds (absent, an intermediate phase of another task id, a
\* finished value) its write can be taken, and it leaves the register holding
\* 'pre-t'; of two callers that both saw the register absent, the second to
\* write replaces the first one's lock record.
C15_PreLockUnconditional ==
  /\ [](\A p \in Procs : pc[p] = "pre_write" => ENABLED PreLockWrite(p))
  /\ [][\A p \in Procs :
          (pc[p] = "pre_write" /\ pc'[p] = "submit") =>
            /\ store'[BOOTSTRAP] = Str(PRE \o <<SEP>> \o task_id[p].str)
            /\ last_write'.prior = store[BOOTSTRAP]
       ]_vars

\* C15 witness: the register holds 'pre-t', written over the lock record
\* 'pre-u' of another caller
C15_Witness ==
  \E t, u \in TaskIds :
    /\ t # u
    /\ last_write # NoWrite /\ last_write.op = "pre_lock"
    /\ last_write.prior = Str(PRE \o <<SEP>> \o u)
    /\ store[BOOTSTRAP] = Str(PRE \o <<SEP>> \o t)

\* C16: an empty register value is decoded as absent: when BOOTSTRAP holds
\* the empty string, bootstrap_state returns bootstrap = false, state = null,
\* task_id = null, as it does for a null value.
C16_EmptyIsAbsent ==
  \A p \in Procs :
    (ret[p] # NoCall /\ store[BOOTSTRAP] = Str(<<>>)) =>
      ret[p] = BootstrapState(FALSE, None, None)

\* C17: values with more than two components are never produced: the task
\* ids get_task_id returns hold no '-', so after any sequence of
\* pre_lock_bootstrap(get_task_id()), release_bootstrap_lock and worker
\* phase advances the register is absent, a one-component or a two-component
\* string, and bootstrap_state returns a BootstrapState, never no value.
C17_AtMostTwoComponents ==
  /\ \A t \in issued : SepPositions(t) = {}
  /\ \/ store[BOOTSTRAP] = None
     \/ Cardinality(SepPositions(store[BOOTSTRAP].str)) <= 1
  /\ \A p \in Procs :
       ret[p] \notin {NoCall, ConnectionError} =>
         /\ ret[p] # None
         /\ DOMAIN ret[p] = {"bootstrap", "state", "task_id"}

\* C17 witness: a two-component value the worker wrote was read back as a
\* BootstrapState naming an issued task id
C17_Witness ==
  \E p \in Procs :
    /\ ret[p] # NoCall /\ ret[p] # None
    /\ ret[p].state = Str(SIGNING)
    /\ ret[p].task_id # None /\ ret[p].task_id.str \in issued
    /\ Cardinality(SepPositions(store[BOOTSTRAP].str)) = 1

\* C18: there is no automatic lock expiry: a register that holds a value
\* becomes absent again only by the write of a release_bootstrap_lock call;
\* no other step (a pre-lock, a worker advance, a read, time passing with a
\* worker that never progresses) takes it to absent, so the path pre ->
\* intermediate phases -> finished never passes through absent.
C18_AbsentOnlyByRelease ==
  [][(store[BOOTSTRAP] # None /\ store'[BOOTSTRAP] = None) =>
       /\ \E p \in Procs : pc[p] = "rel_write" /\ pc'[p] = "idle"
       /\ last_write'.op = "release"
    ]_vars

\* C18 witness: an intermediate value of a submitted task was taken to
\* absent by a release
C18_Witness ==
  /\ store[BOOTSTRAP] = None
  /\ last_write # NoWrite /\ last_write.op = "release"
  /\ last_write.prior \in { PhaseValue(SIGNING, t) : t \in submitted }

\* C19: submitting a task (repository_metadata with an action and a payload)
\* leaves the bootstrap register unchanged: BOOTSTRAP, like every key of the
\* store, is the same before and after the submission, for every register
\* state.
C19_SubmitLeavesRegister ==
  [][\A p \in Procs :
       (pc[p] = "submit" /\ pc'[p] = "idle") =>
         /\ store' = store
         /\ last_write' = last_write
    ]_vars

\* C19 witness: the task of the pre-lock the register holds was submitted,
\* and the register still holds that pre-lock
C19_Witness ==
  \E t \in submitted :
    /\ store[BOOTSTRAP] = PreLockValue(t)
    /\ last_write # NoWrite /\ last_write.op = "pre_lock"
    /\ last_write.task = Str(t)
    /\ pc[last_write.by] = "idle"

\* C20: bootstrap_state and the status query are read-only with respect to
\* the shared store: in every register state and interleaving, a call of
\* either leaves BOOTSTRAP and every other key of the store unchanged; the
\* reload in bootstrap_state refreshes the process-local copy only.
C20_ReadsLeaveStore ==
  [][\A p \in Procs :
       /\ (ret'[p] # ret[p] /\ ret'[p] # NoCall) =>
            (store' = store /\ last_write' = last_write /\ local'[p] = store)
       /\ response'[p] # response[p] =>
            (store' = store /\ last_write' = last_write /\ local' = local)
    ]_vars

\* C20 witness: a process whose local copy is behind the store has queried a
\* task's status, and the other has read the state of a store that holds a
\* pre-lock and another key's update
C20_Witness ==
  \E p, q \in Procs :
    /\ p # q
    /\ response[p] # NoCall
    /\ local[p] # store
    /\ ret[q] # NoCall /\ ret[q] # None /\ ret[q].state = Str(PRE)
    /\ local[q] = store
    /\ store[OTHER_KEY] # EmptySettings[OTHER_KEY]

====
